---- MODULE Spec2Model ----
(***************************************************************************)
(* Model of the property / reservation service                             *)
(* (diogomene/seazone-backend-teste).                                      *)
(*                                                                         *)
(* The relational store is three tables: properties, clients and           *)
(* reservations.  Rows are never deleted, so a row's id is its position in *)
(* the table.  Dates are day numbers; a Decimal with two fractional digits *)
(* is a record [units, cents].  `result` is the response of the last       *)
(* request served.                                                         *)
(***************************************************************************)
EXTENDS Integers, Sequences, FiniteSets, TLC

VARIABLES properties, clients, reservations, result, handlers

vars == <<properties, clients, reservations, result, handlers>>

(***************************************************************************)
(* Bounds of the model.                                                    *)
(***************************************************************************)
MaxProperties == 2
MaxReservations == 2
MaxDate == 4
MaxGuests == 2
MaxHandlers == 2

(***************************************************************************)
(* Program constants.                                                      *)
(***************************************************************************)
\* Numeric(10, 2): at most eight digits before the decimal point.
NumericMaxUnits == 99999999

HTTP_201_CREATED == 201
HTTP_200_OK == 200
HTTP_400_BAD_REQUEST == 400
HTTP_404_NOT_FOUND == 404
HTTP_422_UNPROCESSABLE_ENTITY == 422
HTTP_500_INTERNAL_SERVER_ERROR == 500

(***************************************************************************)
(* Input values.                                                           *)
(***************************************************************************)
Dates == 1..MaxDate

\* date.today() of the requests served.
Today == 1

Dec(u, c) == [units |-> u, cents |-> c]

\* Payloads of POST /properties (capacity, price_per_night).
PropertyInputs ==
    { [capacity |-> 1, price_per_night |-> Dec(99999999, 99)],
      [capacity |-> 2, price_per_night |-> Dec(150, 0)] }

\* An email is the sequence of its characters.
EmailUpperA == <<"A", "@", "x", ".", "i", "o">>
EmailLowerA == <<"a", "@", "x", ".", "i", "o">>
EmailLowerB == <<"b", "@", "x", ".", "i", "o">>

\* The clients of the requests served one at a time.
ClientInputs ==
    { [client_name |-> "Alice", client_email |-> EmailUpperA] }


(***************************************************************************)
(* Values.                                                                 *)
(***************************************************************************)
\* str.lower() on the characters of the model's alphabet.
LowerChar(c) ==
    CASE c = "A" -> "a"
      [] c = "B" -> "b"
      [] c = "X" -> "x"
      [] OTHER -> c

lower(s) == [i \in DOMAIN s |-> LowerChar(s[i])]

\* Decimal * int, exact.
DecMul(d, n) ==
    LET c == d.cents * n
    IN  Dec(d.units * n + (c \div 100), c % 100)

\* A value a Numeric(10, 2) column can hold; a larger one makes the INSERT fail.
NumericFits(d) == d.units <= NumericMaxUnits

\* A message: its text and the number formatted into it (0 when none).
Msg(text) == [text |-> text, n |-> 0]

MsgN(text, n) == [text |-> text, n |-> n]

NoMsg == Msg("")

\* An Optional[list]: None, or the list (its order is unspecified: a set).
None == [is_none |-> TRUE, items |-> {}]

Some(items) == [is_none |-> FALSE, items |-> items]

NoBody == [empty |-> TRUE]

(***************************************************************************)
(* ReservationCreateDTO: the request body of POST /reservations.           *)
(***************************************************************************)
LocalChars == {"a", "b", "x", "A", "B", "X", ".", "i", "o"}

DomainChars == {"a", "b", "x", "A", "B", "X", ".", "i", "o"}

Letters == {"a", "b", "x", "A", "B", "X", "i", "o"}

\* re.match(r'^[a-zA-Z0-9._%+-]+@[a-zA-Z0-9.-]+\.[a-zA-Z]{2,}$', v)
validate_email(v) ==
    \E at \in DOMAIN v : \E dot \in DOMAIN v :
        /\ v[at] = "@"
        /\ v[dot] = "."
        /\ 1 < at
        /\ at + 1 < dot
        /\ dot + 2 <= Len(v)
        /\ \A i \in 1..(at - 1) : v[i] \in LocalChars
        /\ \A i \in (at + 1)..(dot - 1) : v[i] \in DomainChars
        /\ \A i \in (dot + 1)..Len(v) : v[i] \in Letters

\* if v < date.today(): raise
validate_start_date(v) == v >= Today

\* validate_dates comparing with <: an end date equal to the start passes.
validate_dates_allows_equal(v, start_date) ==
    ~(validate_start_date(start_date) /\ v < start_date)

\* if info.data.get('start_date') and v <= info.data['start_date']: raise
validate_dates(v, start_date) ==
    ~(validate_start_date(start_date) /\ v <= start_date)

\* The body is accepted: every field constraint and validator passes.
ReservationCreateDTO_valid(raw) ==
    /\ raw.property_id > 0
    /\ Len(raw.client_email) >= 5
    /\ validate_email(raw.client_email)
    /\ validate_start_date(raw.start_date)
    /\ validate_dates(raw.end_date, raw.start_date)
    /\ raw.guests_quantity > 0

\* The validated DTO: validate_email returns v.lower().
ReservationCreateDTO(raw) ==
    [raw EXCEPT !.client_email = lower(raw.client_email)]

RawRequests ==
    { [property_id |-> p, client_name |-> c.client_name,
       client_email |-> c.client_email, start_date |-> s, end_date |-> e,
       guests_quantity |-> g] :
      p \in 1..MaxProperties, c \in ClientInputs, s \in Dates, e \in Dates,
      g \in 1..MaxGuests }

(***************************************************************************)
(* SQLAlchemyPropertyRepository.                                           *)
(***************************************************************************)
property_exists(property_id) == property_id \in DOMAIN properties

property_get_by_id(property_id) ==
    IF property_id \in DOMAIN properties THEN property_id ELSE 0

\* The query with only its first and_(...): a reservation that starts inside
\* the requested range is not selected.
availability_overlap_first_clause(res, start_date, end_date) ==
    res.start_date <= start_date /\ res.end_date >= start_date

\* The query without its third and_(...): a reservation strictly inside the
\* requested range is not selected.
availability_overlap_no_inside(res, start_date, end_date) ==
    \/ res.start_date <= start_date /\ res.end_date >= start_date
    \/ res.start_date <= end_date /\ res.end_date >= end_date
    \/ res.start_date <= start_date /\ res.end_date >= end_date

\* The or_(...) of the availability query, on one reservation row.
availability_overlap(res, start_date, end_date) ==
    \/ res.start_date <= start_date /\ res.end_date >= start_date
    \/ res.start_date <= end_date /\ res.end_date >= end_date
    \/ res.start_date >= start_date /\ res.end_date <= end_date
    \/ res.start_date <= start_date /\ res.end_date >= end_date

\* The ids of the rows the availability query selects.
availability_conflicts(property_id, start_date, end_date) ==
    { i \in DOMAIN reservations :
        /\ reservations[i].property_id = property_id
        /\ reservations[i].active = TRUE
        /\ availability_overlap(reservations[i], start_date, end_date) }

ReservationSummary(i) ==
    [id |-> i, start_date |-> reservations[i].start_date,
     end_date |-> reservations[i].end_date]

MsgPropertyNotFound == Msg("Propriedade nao encontrada")

MsgNotAvailable == Msg("Propriedade nao disponivel para as datas solicitadas")

MsgCapacityExceeded(n) == MsgN("Capacidade excedida. Maximo: {n} hospedes", n)

MsgAvailable == Msg("Propriedade disponivel para as datas solicitadas")

\* check_availability with the capacity test placed before the conflict test.
check_availability_capacity_first(property_id, start_date, end_date, guests_quantity) ==
    IF property_id \notin DOMAIN properties
    THEN [available |-> FALSE, message |-> MsgPropertyNotFound,
          conflicting_reservations |-> {}]
    ELSE LET conflicting == availability_conflicts(property_id, start_date, end_date)
             capacity_result == properties[property_id].capacity
         IN  IF capacity_result # 0 /\ guests_quantity > capacity_result
             THEN [available |-> FALSE,
                   message |-> MsgCapacityExceeded(capacity_result),
                   conflicting_reservations |-> {}]
             ELSE IF conflicting # {}
             THEN [available |-> FALSE, message |-> MsgNotAvailable,
                   conflicting_reservations |->
                       { ReservationSummary(i) : i \in conflicting }]
             ELSE [available |-> TRUE, message |-> MsgAvailable,
                   conflicting_reservations |-> {}]

\* check_availability without its capacity test.
check_availability_no_capacity(property_id, start_date, end_date, guests_quantity) ==
    IF property_id \notin DOMAIN properties
    THEN [available |-> FALSE, message |-> MsgPropertyNotFound,
          conflicting_reservations |-> {}]
    ELSE LET conflicting == availability_conflicts(property_id, start_date, end_date)
         IN  IF conflicting # {}
             THEN [available |-> FALSE, message |-> MsgNotAvailable,
                   conflicting_reservations |->
                       { ReservationSummary(i) : i \in conflicting }]
             ELSE [available |-> TRUE, message |-> MsgAvailable,
                   conflicting_reservations |-> {}]

check_availability(property_id, start_date, end_date, guests_quantity) ==
    IF property_id \notin DOMAIN properties
    THEN [available |-> FALSE, message |-> MsgPropertyNotFound,
          conflicting_reservations |-> {}]
    ELSE LET conflicting == availability_conflicts(property_id, start_date, end_date)
             capacity_result == properties[property_id].capacity
         IN  IF conflicting # {}
             THEN [available |-> FALSE, message |-> MsgNotAvailable,
                   conflicting_reservations |->
                       { ReservationSummary(i) : i \in conflicting }]
             ELSE IF capacity_result # 0 /\ guests_quantity > capacity_result
             THEN [available |-> FALSE,
                   message |-> MsgCapacityExceeded(capacity_result),
                   conflicting_reservations |-> {}]
             ELSE [available |-> TRUE, message |-> MsgAvailable,
                   conflicting_reservations |-> {}]

(***************************************************************************)
(* SQLAlchemyClientRepository.                                             *)
(***************************************************************************)
\* The lookup without its filter on the email: first() of the whole table.
get_by_email_first_row(email) == IF clients = << >> THEN 0 ELSE 1

\* The lookup compares the email as given, without lower-casing it.
get_by_email_case_sensitive(email) ==
    LET found == { i \in DOMAIN clients : clients[i].email = email }
    IN  IF found = {} THEN 0 ELSE CHOOSE i \in found : \A j \in found : i <= j

\* The id of the client row with this email, lower-cased; 0 when there is none.
get_by_email(email) ==
    LET found == { i \in DOMAIN clients : clients[i].email = lower(email) }
    IN  IF found = {} THEN 0 ELSE CHOOSE i \in found : \A j \in found : i <= j

\* The row get_or_create_by_email inserts when the lookup finds nothing.
new_client(name, email) == [name |-> name, email |-> lower(email)]

\* The unique index on clients.email is not enforced.
email_unique_not_enforced(email) == FALSE

\* email = Column(..., unique=True): the INSERT of a row with this email fails.
email_unique_violation(email) ==
    \E i \in DOMAIN clients : clients[i].email = email

\* get_or_create_by_email: the id of the client returned and the table after
\* the call; raised when the INSERT fails.
get_or_create_by_email(name, email) ==
    LET existing_client == get_by_email(email)
        row == new_client(name, email)
    IN  IF existing_client # 0
        THEN [raised |-> FALSE, client_id |-> existing_client,
              clients |-> clients]
        ELSE IF email_unique_violation(row.email)
        THEN [raised |-> TRUE, client_id |-> 0, clients |-> clients]
        ELSE [raised |-> FALSE, client_id |-> Len(clients) + 1,
              clients |-> Append(clients, row)]

(***************************************************************************)
(* SQLAlchemyReservationRepository.                                        *)
(***************************************************************************)
\* exists() testing the query object, not its first row: always true.
reservation_exists_always(reservation_id) == TRUE

reservation_exists(reservation_id) == reservation_id \in DOMAIN reservations

\* The UPDATE flips the flag: a cancelled reservation becomes active again.
cancel_update_toggle(reservation_id) ==
    [i \in DOMAIN reservations |->
        IF i = reservation_id
        THEN [reservations[i] EXCEPT !.active = ~reservations[i].active]
        ELSE reservations[i]]

\* The UPDATE without its filter on the id: every row is set inactive.
cancel_update_all_rows(reservation_id) ==
    [i \in DOMAIN reservations |-> [reservations[i] EXCEPT !.active = FALSE]]

\* UPDATE reservations SET active = false WHERE id = :id
cancel_update(reservation_id) ==
    [i \in DOMAIN reservations |->
        IF i = reservation_id
        THEN [reservations[i] EXCEPT !.active = FALSE]
        ELSE reservations[i]]

\* The UPDATE filtered on active rows too: an inactive row is not matched.
cancel_updated_active_only(reservation_id) ==
    Cardinality({ i \in DOMAIN reservations :
                    i = reservation_id /\ reservations[i].active })

\* The number of rows the UPDATE matches.
cancel_updated(reservation_id) ==
    Cardinality({ i \in DOMAIN reservations : i = reservation_id })

\* The or_(...) of the conflict query without its third and_(...).
conflicting_overlap_no_inside(res, start_date, end_date) ==
    \/ res.start_date <= start_date /\ res.end_date > start_date
    \/ res.start_date < end_date /\ res.end_date >= end_date

\* The or_(...) of the conflict query with >= in its first and_(...).
conflicting_overlap_inclusive_start(res, start_date, end_date) ==
    \/ res.start_date <= start_date /\ res.end_date >= start_date
    \/ res.start_date < end_date /\ res.end_date >= end_date
    \/ res.start_date >= start_date /\ res.end_date <= end_date

\* The or_(...) of the conflict query, on one reservation row.
conflicting_overlap(res, start_date, end_date) ==
    \/ res.start_date <= start_date /\ res.end_date > start_date
    \/ res.start_date < end_date /\ res.end_date >= end_date
    \/ res.start_date >= start_date /\ res.end_date <= end_date

\* get_conflicting_reservations: the ids of the rows returned;
\* exclude_reservation_id is 0 for None.
get_conflicting_reservations(property_id, start_date, end_date, exclude_reservation_id) ==
    { i \in DOMAIN reservations :
        /\ reservations[i].property_id = property_id
        /\ reservations[i].active = TRUE
        /\ conflicting_overlap(reservations[i], start_date, end_date)
        /\ exclude_reservation_id # 0 => i # exclude_reservation_id }

(***************************************************************************)
(* Responses.                                                              *)
(***************************************************************************)
Response(op, request, status, detail, body) ==
    [op |-> op, request |-> request, status |-> status, detail |-> detail,
     body |-> body]

MsgInternalError == Msg("Erro interno do servidor")

MsgReservationNotFound == Msg("Reserva nao encontrada")

MsgCancelled == Msg("Reserva cancelada com sucesso")

MsgCancelError == Msg("Erro ao cancelar reserva")

(***************************************************************************)
(* Initial state: the empty schema of the initial migration.               *)
(***************************************************************************)
NoResponse == Response("none", NoBody, 0, NoMsg, NoBody)

\* A request handler that serves no request.
IdleHandler ==
    [pc |-> "idle", raw |-> NoBody, client_id |-> 0, reservation_id |-> 0,
     response |-> NoResponse]

\* The last response has been sent: the next request can be served.
Idle == result = NoResponse

Init ==
    /\ properties = << >>
    /\ clients = << >>
    /\ reservations = << >>
    /\ result = NoResponse
    /\ handlers = [h \in 1..MaxHandlers |-> IdleHandler]

(***************************************************************************)
(* get_database_session: the response is sent and the request's session    *)
(* is closed; the next request can be served.                              *)
(***************************************************************************)
CloseSession ==
    /\ result # NoResponse
    /\ result' = NoResponse
    /\ UNCHANGED <<properties, clients, reservations, handlers>>

(***************************************************************************)
(* POST /properties: CriarPropriedadeUseCase.execute.                      *)
(***************************************************************************)
CriarPropriedade(data) ==
    /\ Idle
    /\ Len(properties) < MaxProperties
    /\ data.capacity > 0
    /\ NumericFits(data.price_per_night)
    /\ properties' = Append(properties, data)
    /\ result' = Response("create_property", data, HTTP_201_CREATED, NoMsg,
                          [id |-> Len(properties) + 1])
    /\ UNCHANGED <<clients, reservations, handlers>>

(***************************************************************************)
(* GET /properties/{id}/availability:                                      *)
(* VerificarDisponibilidadeUseCase.execute.                                *)
(***************************************************************************)
\* The use case with a date test of its own, end-exclusive, in place of the
\* repository's verdict on the dates.
VerificarDisponibilidadeUseCase_own_overlap(property_id, start_date, end_date, guests_quantity) ==
    IF ~property_exists(property_id)
    THEN [property_id |-> property_id, available |-> FALSE,
          message |-> MsgPropertyNotFound, conflicting_reservations |-> None]
    ELSE LET conflicting ==
                 { i \in availability_conflicts(property_id, start_date, end_date) :
                     /\ reservations[i].start_date < end_date
                     /\ start_date < reservations[i].end_date }
             capacity_result == properties[property_id].capacity
         IN  IF conflicting # {}
             THEN [property_id |-> property_id, available |-> FALSE,
                   message |-> MsgNotAvailable,
                   conflicting_reservations |->
                       Some({ ReservationSummary(i) : i \in conflicting })]
             ELSE IF guests_quantity > capacity_result
             THEN [property_id |-> property_id, available |-> FALSE,
                   message |-> MsgCapacityExceeded(capacity_result),
                   conflicting_reservations |-> Some({})]
             ELSE [property_id |-> property_id, available |-> TRUE,
                   message |-> MsgAvailable,
                   conflicting_reservations |-> Some({})]

VerificarDisponibilidadeUseCase(property_id, start_date, end_date, guests_quantity) ==
    IF ~property_exists(property_id)
    THEN [property_id |-> property_id, available |-> FALSE,
          message |-> MsgPropertyNotFound, conflicting_reservations |-> None]
    ELSE LET availability_result ==
                 check_availability(property_id, start_date, end_date,
                                    guests_quantity)
         IN  [property_id |-> property_id,
              available |-> availability_result.available,
              message |-> availability_result.message,
              conflicting_reservations |->
                  Some(availability_result.conflicting_reservations)]

\* The availability check sets the reservations it finds in conflict
\* inactive.
VerificarDisponibilidade_expiring(property_id, start_date, end_date, guests_quantity) ==
    /\ Idle
    /\ start_date < end_date
    /\ guests_quantity > 0
    /\ result' = Response("availability",
                          [property_id |-> property_id, start_date |-> start_date,
                           end_date |-> end_date,
                           guests_quantity |-> guests_quantity],
                          HTTP_200_OK, NoMsg,
                          VerificarDisponibilidadeUseCase(property_id, start_date,
                              end_date, guests_quantity))
    /\ reservations' =
           [i \in DOMAIN reservations |->
               IF i \in availability_conflicts(property_id, start_date, end_date)
               THEN [reservations[i] EXCEPT !.active = FALSE]
               ELSE reservations[i]]
    /\ UNCHANGED <<properties, clients, handlers>>

VerificarDisponibilidade(property_id, start_date, end_date, guests_quantity) ==
    /\ Idle
    /\ start_date < end_date
    /\ guests_quantity > 0
    /\ result' = Response("availability",
                          [property_id |-> property_id, start_date |-> start_date,
                           end_date |-> end_date,
                           guests_quantity |-> guests_quantity],
                          HTTP_200_OK, NoMsg,
                          VerificarDisponibilidadeUseCase(property_id, start_date,
                              end_date, guests_quantity))
    /\ UNCHANGED <<properties, clients, reservations, handlers>>

(***************************************************************************)
(* POST /reservations: CriarReservaUseCase.execute, served alone.          *)
(***************************************************************************)
\* The days counted inclusively.
reservation_days_inclusive(dto) == dto.end_date - dto.start_date + 1

\* days = (end_date - start_date).days
reservation_days(dto) == dto.end_date - dto.start_date

\* total_price = property_obj.price_per_night * days
total_price(dto) ==
    DecMul(properties[dto.property_id].price_per_night, reservation_days(dto))

\* reservation_obj_data with the id the next inserted client would get, not
\* the id of the client resolved.
reservation_obj_data_next_client(dto, client_id) ==
    [property_id |-> dto.property_id, client_id |-> Len(clients) + 1,
     start_date |-> dto.start_date, end_date |-> dto.end_date,
     guests_quantity |-> dto.guests_quantity, price |-> total_price(dto),
     active |-> TRUE]

\* reservation_obj_data with the id of the first client, not of the one
\* resolved for the request.
reservation_obj_data_first_client(dto, client_id) ==
    [property_id |-> dto.property_id, client_id |-> 1,
     start_date |-> dto.start_date, end_date |-> dto.end_date,
     guests_quantity |-> dto.guests_quantity, price |-> total_price(dto),
     active |-> TRUE]

\* reservation_obj_data
reservation_obj_data(dto, client_id) ==
    [property_id |-> dto.property_id, client_id |-> client_id,
     start_date |-> dto.start_date, end_date |-> dto.end_date,
     guests_quantity |-> dto.guests_quantity, price |-> total_price(dto),
     active |-> TRUE]

\* ReservationResponseDTO built from get_with_details.
ReservationResponseDTO(id, row, client_id, client) ==
    [id |-> id, property |-> row.property_id,
     client |-> [id |-> client_id, name |-> client.name, email |-> client.email],
     start_date |-> row.start_date, end_date |-> row.end_date,
     guests_quantity |-> row.guests_quantity, price |-> row.price,
     active |-> row.active]

\* The client is resolved before the request is rejected.
CriarReservaRejected_client_resolved(raw, message) ==
    /\ result' = Response("create_reservation", raw, HTTP_400_BAD_REQUEST,
                          message, NoBody)
    /\ clients' = get_or_create_by_email(raw.client_name,
                                         raw.client_email).clients
    /\ UNCHANGED <<properties, reservations, handlers>>

\* raise ValueError(...): the controller answers 400; nothing was written.
CriarReservaRejected(raw, message) ==
    /\ result' = Response("create_reservation", raw, HTTP_400_BAD_REQUEST,
                          message, NoBody)
    /\ UNCHANGED <<properties, clients, reservations, handlers>>

CriarReserva(raw) ==
    /\ Idle
    /\ ReservationCreateDTO_valid(raw)
    /\ LET dto == ReservationCreateDTO(raw)
       IN  IF ~property_exists(dto.property_id)
           THEN CriarReservaRejected(raw, MsgPropertyNotFound)
           ELSE
           LET availability == check_availability(dto.property_id, dto.start_date,
                                   dto.end_date, dto.guests_quantity)
           IN  IF ~availability.available
               THEN CriarReservaRejected(raw, availability.message)
               ELSE
               LET client == get_or_create_by_email(dto.client_name,
                                                    dto.client_email)
                   clients1 == client.clients
                   client_id == client.client_id
                   row == reservation_obj_data(dto, client_id)
               IN  /\ clients' = clients1
                   /\ UNCHANGED <<properties, handlers>>
                   /\ IF client.raised \/ ~NumericFits(row.price)
                      THEN /\ reservations' = reservations
                           /\ result' = Response("create_reservation", raw,
                                            HTTP_500_INTERNAL_SERVER_ERROR,
                                            MsgInternalError, NoBody)
                      ELSE /\ Len(reservations) < MaxReservations
                           /\ reservations' = Append(reservations, row)
                           /\ result' = Response("create_reservation", raw,
                                            HTTP_201_CREATED, NoMsg,
                                            ReservationResponseDTO(
                                                Len(reservations) + 1, row,
                                                client_id, clients1[client_id]))

(***************************************************************************)
(* DELETE /reservations/{id}: CancelarReservaUseCase.execute, served       *)
(* alone, and the controller's mapping of its result.  The body of the     *)
(* response recorded is the ReservationCancelDTO the use case returns;     *)
(* with status 404 the controller raises HTTPException instead of          *)
(* returning it, and `detail` is the detail of the exception.              *)
(***************************************************************************)
\* The controller returns every result of the use case as it is.
ContainsNaoEncontrada_never(message) == FALSE

\* "não encontrada" in message
ContainsNaoEncontrada(message) ==
    message.text \in {"Reserva nao encontrada", "Propriedade nao encontrada"}

CancelarReserva(reservation_id) ==
    /\ Idle
    /\ UNCHANGED <<properties, clients, handlers>>
    /\ IF ~reservation_exists(reservation_id)
       THEN /\ reservations' = reservations
            /\ result' = Response("cancel", [reservation_id |-> reservation_id],
                             IF ContainsNaoEncontrada(MsgReservationNotFound)
                             THEN HTTP_404_NOT_FOUND ELSE HTTP_200_OK,
                             MsgReservationNotFound,
                             [id |-> reservation_id, cancelled |-> FALSE,
                              message |-> MsgReservationNotFound])
       ELSE IF cancel_updated(reservation_id) > 0
       THEN /\ reservations' = cancel_update(reservation_id)
            /\ result' = Response("cancel", [reservation_id |-> reservation_id],
                             HTTP_200_OK, NoMsg,
                             [id |-> reservation_id, cancelled |-> TRUE,
                              message |-> MsgCancelled])
       ELSE /\ reservations' = reservations
            /\ result' = Response("cancel", [reservation_id |-> reservation_id],
                             HTTP_200_OK, NoMsg,
                             [id |-> reservation_id, cancelled |-> FALSE,
                              message |-> MsgCancelError])

(***************************************************************************)
(* The service with its requests served one at a time.                     *)
(***************************************************************************)
Next ==
    \/ \E data \in PropertyInputs : CriarPropriedade(data)
    \/ \E p \in 1..MaxProperties, s \in Dates, e \in Dates, g \in 1..MaxGuests :
          VerificarDisponibilidade(p, s, e, g)
    \/ \E raw \in RawRequests : CriarReserva(raw)
    \/ \E id \in 1..MaxReservations : CancelarReserva(id)
    \/ CloseSession

Spec == Init /\ [][Next]_vars

(***************************************************************************)
(* POST /reservations served by concurrent handlers, each with its own     *)
(* session: one step per statement CriarReservaUseCase.execute sends to    *)
(* the store, which every step reads as committed so far.                  *)
(***************************************************************************)
\* The requests of the concurrent handlers: one client and one guest, on the
\* first property.
ConcurrentRequests ==
    { raw \in RawRequests : raw.guests_quantity = 1 /\ raw.property_id = 1 }

HandlerAt(h, pc) == handlers[h].pc = pc

HandlerDto(h) == ReservationCreateDTO(handlers[h].raw)

\* The handler ends with this response.
HandlerRespond(h, status, detail, body) ==
    handlers' = [handlers EXCEPT
        ![h].pc = "done",
        ![h].response = Response("create_reservation", handlers[h].raw, status,
                                 detail, body)]

BeginCriarReserva(h, raw) ==
    /\ HandlerAt(h, "idle")
    /\ result = NoResponse
    /\ ReservationCreateDTO_valid(raw)
    /\ handlers' = [handlers EXCEPT ![h].pc = "exists", ![h].raw = raw]
    /\ UNCHANGED <<properties, clients, reservations, result>>

\* if not await self.property_repository.exists(...)
StepExists(h) ==
    /\ HandlerAt(h, "exists")
    /\ IF ~property_exists(HandlerDto(h).property_id)
       THEN HandlerRespond(h, HTTP_400_BAD_REQUEST, MsgPropertyNotFound, NoBody)
       ELSE handlers' = [handlers EXCEPT ![h].pc = "check_availability"]
    /\ UNCHANGED <<properties, clients, reservations, result>>

\* availability = await self.property_repository.check_availability(...)
StepCheckAvailability(h) ==
    /\ HandlerAt(h, "check_availability")
    /\ LET dto == HandlerDto(h)
           availability == check_availability(dto.property_id, dto.start_date,
                               dto.end_date, dto.guests_quantity)
       IN  IF ~availability.available
           THEN HandlerRespond(h, HTTP_400_BAD_REQUEST, availability.message,
                               NoBody)
           ELSE handlers' = [handlers EXCEPT ![h].pc = "get_by_email"]
    /\ UNCHANGED <<properties, clients, reservations, result>>

\* existing_client = await self.get_by_email(email)
StepGetByEmail(h) ==
    /\ HandlerAt(h, "get_by_email")
    /\ LET existing_client == get_by_email(HandlerDto(h).client_email)
       IN  IF existing_client # 0
           THEN handlers' = [handlers EXCEPT ![h].pc = "get_property",
                                             ![h].client_id = existing_client]
           ELSE handlers' = [handlers EXCEPT ![h].pc = "create_client"]
    /\ UNCHANGED <<properties, clients, reservations, result>>

\* return await self.create(client_data): the INSERT fails on the unique
\* email when another session has committed the same email meanwhile.
StepCreateClient(h) ==
    /\ HandlerAt(h, "create_client")
    /\ LET dto == HandlerDto(h)
       IN  IF email_unique_violation(lower(dto.client_email))
           THEN /\ HandlerRespond(h, HTTP_500_INTERNAL_SERVER_ERROR,
                                  MsgInternalError, NoBody)
                /\ clients' = clients
           ELSE /\ clients' = Append(clients,
                                     new_client(dto.client_name, dto.client_email))
                /\ handlers' = [handlers EXCEPT ![h].pc = "get_property",
                                                ![h].client_id = Len(clients) + 1]
    /\ UNCHANGED <<properties, reservations, result>>

MsgPropertyDataError == Msg("Erro ao buscar dados da propriedade")

\* property_obj = await self.property_repository.get_by_id(...)
StepGetProperty(h) ==
    /\ HandlerAt(h, "get_property")
    /\ IF property_get_by_id(HandlerDto(h).property_id) = 0
       THEN HandlerRespond(h, HTTP_400_BAD_REQUEST, MsgPropertyDataError, NoBody)
       ELSE handlers' = [handlers EXCEPT ![h].pc = "create"]
    /\ UNCHANGED <<properties, clients, reservations, result>>

\* reservation = await self.reservation_repository.create(reservation_obj_data)
StepCreate(h) ==
    /\ HandlerAt(h, "create")
    /\ LET row == reservation_obj_data(HandlerDto(h), handlers[h].client_id)
       IN  IF ~NumericFits(row.price)
           THEN /\ HandlerRespond(h, HTTP_500_INTERNAL_SERVER_ERROR,
                                  MsgInternalError, NoBody)
                /\ reservations' = reservations
           ELSE /\ Len(reservations) < MaxReservations
                /\ reservations' = Append(reservations, row)
                /\ handlers' = [handlers EXCEPT
                       ![h].pc = "get_with_details",
                       ![h].reservation_id = Len(reservations) + 1]
    /\ UNCHANGED <<properties, clients, result>>

\* reservation_details = await self.reservation_repository.get_with_details(...)
StepGetWithDetails(h) ==
    /\ HandlerAt(h, "get_with_details")
    /\ LET id == handlers[h].reservation_id
           row == reservations[id]
       IN  HandlerRespond(h, HTTP_201_CREATED, NoMsg,
               ReservationResponseDTO(id, row, row.client_id,
                                      clients[row.client_id]))
    /\ UNCHANGED <<properties, clients, reservations, result>>

\* The response is sent and the handler's session is closed.
CloseHandler(h) ==
    /\ HandlerAt(h, "done")
    /\ handlers' = [handlers EXCEPT ![h] = IdleHandler]
    /\ UNCHANGED <<properties, clients, reservations, result>>

NextConcurrent ==
    \/ \E data \in PropertyInputs : CriarPropriedade(data)
    \/ CloseSession
    \/ \E h \in 1..MaxHandlers : \E raw \in ConcurrentRequests :
          BeginCriarReserva(h, raw)
    \/ \E h \in 1..MaxHandlers : StepExists(h)
    \/ \E h \in 1..MaxHandlers : StepCheckAvailability(h)
    \/ \E h \in 1..MaxHandlers : StepGetByEmail(h)
    \/ \E h \in 1..MaxHandlers : StepCreateClient(h)
    \/ \E h \in 1..MaxHandlers : StepGetProperty(h)
    \/ \E h \in 1..MaxHandlers : StepCreate(h)
    \/ \E h \in 1..MaxHandlers : StepGetWithDetails(h)
    \/ \E h \in 1..MaxHandlers : CloseHandler(h)

SpecConcurrent == Init /\ [][NextConcurrent]_vars

(***************************************************************************)
(* The service with clients that differ in name and in the letter case of  *)
(* their email, on one range of dates, and the client repository called    *)
(* on its own.                                                             *)
(***************************************************************************)
\* The (name, email) pairs of the calls.
ClientCalls ==
    { [client_name |-> "Alice", client_email |-> EmailUpperA],
      [client_name |-> "Alicia", client_email |-> EmailLowerA],
      [client_name |-> "Bob", client_email |-> EmailLowerB] }

ClientRequests ==
    { [property_id |-> p, client_name |-> c.client_name,
       client_email |-> c.client_email, start_date |-> Today,
       end_date |-> Today + 1, guests_quantity |-> g] :
      p \in 1..MaxProperties, c \in ClientCalls, g \in 1..MaxGuests }

\* SQLAlchemyClientRepository.get_or_create_by_email in a session of its own.
GetOrCreateByEmail(name, email) ==
    /\ Idle
    /\ LET client == get_or_create_by_email(name, email)
       IN  /\ clients' = client.clients
           /\ result' =
                  IF client.raised
                  THEN Response("get_or_create_by_email",
                                [name |-> name, email |-> email],
                                HTTP_500_INTERNAL_SERVER_ERROR, MsgInternalError,
                                NoBody)
                  ELSE Response("get_or_create_by_email",
                                [name |-> name, email |-> email],
                                HTTP_200_OK, NoMsg,
                                [id |-> client.client_id,
                                 name |-> client.clients[client.client_id].name,
                                 email |-> client.clients[client.client_id].email])
    /\ UNCHANGED <<properties, reservations, handlers>>

NextClients ==
    \/ \E data \in PropertyInputs : CriarPropriedade(data)
    \/ \E raw \in ClientRequests : CriarReserva(raw)
    \/ \E c \in ClientCalls : GetOrCreateByEmail(c.client_name, c.client_email)
    \/ \E id \in 1..MaxReservations : CancelarReserva(id)
    \/ CloseSession

SpecClients == Init /\ [][NextClients]_vars

(***************************************************************************)
(* The service with request bodies that ReservationCreateDTO rejects:       *)
(* dates from yesterday on, in any order.                                  *)
(***************************************************************************)
ValidationDates == (Today - 1)..(Today + 2)

ValidationRequests ==
    { [property_id |-> p, client_name |-> c.client_name,
       client_email |-> c.client_email, start_date |-> s, end_date |-> e,
       guests_quantity |-> 1] :
      p \in 1..MaxProperties, c \in ClientInputs, s \in ValidationDates,
      e \in ValidationDates }

MsgValidationError == Msg("ValidationError")

\* POST /reservations with a body the DTO rejects: the use case is not
\* called and the route answers 422.
CriarReservaInvalida(raw) ==
    /\ Idle
    /\ ~ReservationCreateDTO_valid(raw)
    /\ result' = Response("create_reservation", raw,
                          HTTP_422_UNPROCESSABLE_ENTITY, MsgValidationError,
                          NoBody)
    /\ UNCHANGED <<properties, clients, reservations, handlers>>

NextValidation ==
    \/ \E data \in PropertyInputs : CriarPropriedade(data)
    \/ \E raw \in ValidationRequests : CriarReserva(raw)
    \/ \E raw \in ValidationRequests : CriarReservaInvalida(raw)
    \/ \E id \in 1..MaxReservations : CancelarReserva(id)
    \/ CloseSession

SpecValidation == Init /\ [][NextValidation]_vars

(***************************************************************************)
(* The service with the reservation repository's conflict query called on  *)
(* its own, for any property, dates and excluded id.                       *)
(***************************************************************************)
GetConflictingReservations(property_id, start_date, end_date, exclude_reservation_id) ==
    /\ Idle
    /\ result' = Response("get_conflicting_reservations",
                          [property_id |-> property_id,
                           start_date |-> start_date, end_date |-> end_date,
                           exclude_reservation_id |-> exclude_reservation_id],
                          HTTP_200_OK, NoMsg,
                          [ids |-> get_conflicting_reservations(property_id,
                                       start_date, end_date,
                                       exclude_reservation_id)])
    /\ UNCHANGED <<properties, clients, reservations, handlers>>

NextConflicts ==
    \/ \E data \in PropertyInputs : CriarPropriedade(data)
    \/ \E raw \in RawRequests : CriarReserva(raw)
    \/ \E id \in 1..MaxReservations : CancelarReserva(id)
    \/ \E p \in 1..MaxProperties, s \in Dates, e \in Dates,
          x \in 0..MaxReservations : GetConflictingReservations(p, s, e, x)
    \/ CloseSession

SpecConflicts == Init /\ [][NextConflicts]_vars

(***************************************************************************)
(* GET /reservations: ListarReservasUseCase.execute over                   *)
(* SQLAlchemyReservationRepository.get_all.  A filter that is not given is *)
(* None for the email and 0 for the property id.                           *)
(***************************************************************************)
\* ReservationFiltersDTO.validate_client_email: v.lower() when given.
ReservationFiltersDTO(client_email, property_id, active_only) ==
    [client_email |-> IF client_email = None THEN None ELSE lower(client_email),
     property_id |-> property_id, active_only |-> active_only]

\* get_all without its filter on Reservation.active.
get_all_matching_any_active(filters) ==
    { i \in DOMAIN reservations :
        /\ filters.client_email # None =>
               clients[reservations[i].client_id].email = filters.client_email
        /\ filters.property_id # 0 =>
               reservations[i].property_id = filters.property_id }

\* The ids of the rows the filters of get_all select.
get_all_matching(filters) ==
    { i \in DOMAIN reservations :
        /\ filters.client_email # None =>
               clients[reservations[i].client_id].email = filters.client_email
        /\ filters.property_id # 0 =>
               reservations[i].property_id = filters.property_id
        /\ filters.active_only => reservations[i].active = TRUE }

\* The orders in which the store can return a set of rows: the query has
\* no ORDER BY.
RowOrders(ids) ==
    { order \in [1..Cardinality(ids) -> ids] :
        \A a \in DOMAIN order : \A b \in DOMAIN order :
            order[a] = order[b] => a = b }

\* query.offset(offset).limit(limit) on the rows in one order.
OffsetLimit(order, offset, limit) ==
    [k \in 1..(IF Len(order) - offset < limit
               THEN (IF Len(order) > offset THEN Len(order) - offset ELSE 0)
               ELSE limit) |-> order[offset + k]]

\* ReservationListDTO.from_reservation_with_details
ReservationListDTO(i) ==
    [id |-> i,
     client_name |-> clients[reservations[i].client_id].name,
     client_email |-> clients[reservations[i].client_id].email,
     start_date |-> reservations[i].start_date,
     end_date |-> reservations[i].end_date,
     guests_quantity |-> reservations[i].guests_quantity,
     price |-> reservations[i].price,
     active |-> reservations[i].active]

\* The pages and page sizes of the listings.
Pages == {1, 2}

PageSizes == {1, 20}

\* The email filters of the listings: none, a client's, nobody's.
EmailFilters == {None, EmailUpperA, EmailLowerB}

ListarReservas(client_email, property_id, active_only, page, page_size) ==
    /\ Idle
    /\ LET filters == ReservationFiltersDTO(client_email, property_id,
                                            active_only)
           offset == (page - 1) * page_size
       IN  \E order \in RowOrders(get_all_matching(filters)) :
               LET rows == OffsetLimit(order, offset, page_size)
               IN  result' = Response("list_reservations",
                                 [client_email |-> client_email,
                                  property_id |-> property_id,
                                  active_only |-> active_only,
                                  page |-> page, page_size |-> page_size],
                                 HTTP_200_OK, NoMsg,
                                 [items |-> [k \in DOMAIN rows |->
                                                ReservationListDTO(rows[k])]])
    /\ UNCHANGED <<properties, clients, reservations, handlers>>

NextListing ==
    \/ \E data \in PropertyInputs : CriarPropriedade(data)
    \/ \E raw \in RawRequests : CriarReserva(raw)
    \/ \E id \in 1..MaxReservations : CancelarReserva(id)
    \/ \E client_email \in EmailFilters, property_id \in 0..MaxProperties,
          active_only \in BOOLEAN, page \in Pages, page_size \in PageSizes :
          ListarReservas(client_email, property_id, active_only, page, page_size)
    \/ CloseSession

SpecListing == Init /\ [][NextListing]_vars

(***************************************************************************)
(* POST /reservations served by concurrent handlers for those clients.     *)
(***************************************************************************)
ConcurrentClientRequests ==
    { raw \in ClientRequests : raw.property_id = 1 /\ raw.guests_quantity = 1 }

NextConcurrentClients ==
    \/ \E data \in PropertyInputs : CriarPropriedade(data)
    \/ CloseSession
    \/ \E h \in 1..MaxHandlers : \E raw \in ConcurrentClientRequests :
          BeginCriarReserva(h, raw)
    \/ \E h \in 1..MaxHandlers : StepExists(h)
    \/ \E h \in 1..MaxHandlers : StepCheckAvailability(h)
    \/ \E h \in 1..MaxHandlers : StepGetByEmail(h)
    \/ \E h \in 1..MaxHandlers : StepCreateClient(h)
    \/ \E h \in 1..MaxHandlers : StepGetProperty(h)
    \/ \E h \in 1..MaxHandlers : StepCreate(h)
    \/ \E h \in 1..MaxHandlers : StepGetWithDetails(h)
    \/ \E h \in 1..MaxHandlers : CloseHandler(h)

SpecConcurrentClients == Init /\ [][NextConcurrentClients]_vars

(***************************************************************************)
(* DELETE /reservations/{id} served by concurrent handlers, next to        *)
(* POST /reservations: one step per statement                              *)
(* CancelarReservaUseCase.execute sends to the store.                      *)
(***************************************************************************)
\* The handler ends its cancellation with this result of the use case,
\* mapped by the controller.
HandlerRespondCancel(h, cancelled, message) ==
    handlers' = [handlers EXCEPT
        ![h].pc = "done",
        ![h].response =
            Response("cancel", handlers[h].raw,
                     IF ~cancelled /\ ContainsNaoEncontrada(message)
                     THEN HTTP_404_NOT_FOUND ELSE HTTP_200_OK,
                     IF ~cancelled /\ ContainsNaoEncontrada(message)
                     THEN message ELSE NoMsg,
                     [id |-> handlers[h].raw.reservation_id,
                      cancelled |-> cancelled, message |-> message])]

BeginCancelarReserva(h, reservation_id) ==
    /\ HandlerAt(h, "idle")
    /\ result = NoResponse
    /\ handlers' = [handlers EXCEPT
           ![h].pc = "cancel_exists",
           ![h].raw = [reservation_id |-> reservation_id]]
    /\ UNCHANGED <<properties, clients, reservations, result>>

\* if not await self.reservation_repository.exists(reservation_id)
StepCancelExists(h) ==
    /\ HandlerAt(h, "cancel_exists")
    /\ IF ~reservation_exists(handlers[h].raw.reservation_id)
       THEN HandlerRespondCancel(h, FALSE, MsgReservationNotFound)
       ELSE handlers' = [handlers EXCEPT ![h].pc = "cancel"]
    /\ UNCHANGED <<properties, clients, reservations, result>>

\* success = await self.reservation_repository.cancel(reservation_id)
StepCancel(h) ==
    /\ HandlerAt(h, "cancel")
    /\ LET reservation_id == handlers[h].raw.reservation_id
       IN  IF cancel_updated(reservation_id) > 0
           THEN /\ reservations' = cancel_update(reservation_id)
                /\ HandlerRespondCancel(h, TRUE, MsgCancelled)
           ELSE /\ reservations' = reservations
                /\ HandlerRespondCancel(h, FALSE, MsgCancelError)
    /\ UNCHANGED <<properties, clients, result>>

NextConcurrentCancel ==
    \/ \E data \in PropertyInputs : CriarPropriedade(data)
    \/ CloseSession
    \/ \E h \in 1..MaxHandlers : \E raw \in ConcurrentClientRequests :
          BeginCriarReserva(h, raw)
    \/ \E h \in 1..MaxHandlers : StepExists(h)
    \/ \E h \in 1..MaxHandlers : StepCheckAvailability(h)
    \/ \E h \in 1..MaxHandlers : StepGetByEmail(h)
    \/ \E h \in 1..MaxHandlers : StepCreateClient(h)
    \/ \E h \in 1..MaxHandlers : StepGetProperty(h)
    \/ \E h \in 1..MaxHandlers : StepCreate(h)
    \/ \E h \in 1..MaxHandlers : StepGetWithDetails(h)
    \/ \E h \in 1..MaxHandlers : \E id \in 1..MaxReservations :
          BeginCancelarReserva(h, id)
    \/ \E h \in 1..MaxHandlers : StepCancelExists(h)
    \/ \E h \in 1..MaxHandlers : StepCancel(h)
    \/ \E h \in 1..MaxHandlers : CloseHandler(h)

SpecConcurrentCancel == Init /\ [][NextConcurrentCancel]_vars

(***************************************************************************)
(* Properties of the service.                                              *)
(***************************************************************************)
\* The ranges [res.start_date, res.end_date) and [start_date, end_date)
\* share a night.
SharesNight(res, start_date, end_date) ==
    res.start_date < end_date /\ start_date < res.end_date

\* The active reservations of a property.
ActiveOf(property_id) ==
    { i \in DOMAIN reservations :
        reservations[i].property_id = property_id /\ reservations[i].active }

\* The active reservations of a property that share a night with a range.
RealConflicts(property_id, start_date, end_date) ==
    { i \in ActiveOf(property_id) :
        SharesNight(reservations[i], start_date, end_date) }

\* The last response is the availability verdict of an existing property.
AvailabilityOfExisting ==
    /\ result.op = "availability"
    /\ result.request.property_id \in DOMAIN properties

\* C1: with requests served one at a time, no two active reservations of the
\* same property share a night.
C1_NoOverlappingActive ==
    \A i \in DOMAIN reservations : \A j \in DOMAIN reservations :
        (/\ i # j
         /\ reservations[i].active
         /\ reservations[j].active
         /\ reservations[i].property_id = reservations[j].property_id)
        => ~SharesNight(reservations[i], reservations[j].start_date,
                        reservations[j].end_date)

\* Two active reservations of one property, the second just created.
C1_Witness ==
    /\ result.op = "create_reservation"
    /\ result.status = HTTP_201_CREATED
    /\ Cardinality(ActiveOf(result.request.property_id)) >= 2

\* C3: the conflict set of check_availability is exactly the set of active
\* reservations of the property that share a night with the candidate range.
C3_ConflictSetIsExact ==
    AvailabilityOfExisting =>
        { c.id : c \in result.body.conflicting_reservations.items }
            = RealConflicts(result.request.property_id,
                            result.request.start_date, result.request.end_date)

\* The last response answers a creation request for an existing property
\* with guests within its capacity and a price the column can hold.
CreationWithinCapacity ==
    /\ result.op = "create_reservation"
    /\ result.request.property_id \in DOMAIN properties
    /\ result.request.guests_quantity
           <= properties[result.request.property_id].capacity
    /\ NumericFits(DecMul(properties[result.request.property_id].price_per_night,
                          result.request.end_date - result.request.start_date))

\* The reservation the last response created, if any.
CreatedNow ==
    IF result.op = "create_reservation" /\ result.status = HTTP_201_CREATED
    THEN {result.body.id} ELSE {}

\* The reservations of a property, active or not.
ReservationsOf(property_id) ==
    { i \in DOMAIN reservations : reservations[i].property_id = property_id }

\* C4: a creation request that starts on the end date of the only other
\* reservation of the property (an active one) is persisted.
C4_BackToBackAllowed ==
    (/\ CreationWithinCapacity
     /\ LET others == ReservationsOf(result.request.property_id) \ CreatedNow
        IN  /\ Cardinality(others) = 1
            /\ \A i \in others :
                   /\ reservations[i].active
                   /\ reservations[i].end_date = result.request.start_date)
    => /\ result.status = HTTP_201_CREATED
       /\ Cardinality(ActiveOf(result.request.property_id)) = 2

\* C5: every active reservation of the property that shares a night with the
\* candidate range is listed, and the verdict is then "not available".
C5_NoMissedOverlap ==
    AvailabilityOfExisting =>
        \A i \in RealConflicts(result.request.property_id,
                               result.request.start_date,
                               result.request.end_date) :
            /\ ReservationSummary(i) \in result.body.conflicting_reservations.items
            /\ result.body.available = FALSE

\* A listed reservation that lies strictly inside the candidate range.
C5_Witness ==
    /\ AvailabilityOfExisting
    /\ \E c \in result.body.conflicting_reservations.items :
          /\ result.request.start_date < c.start_date
          /\ c.end_date < result.request.end_date

\* C6: a cancelled reservation is never listed by the availability check, and
\* a creation request whose range shares a night with a cancelled reservation
\* and with no active one (guests within capacity) succeeds.
C6_CancelledDoNotParticipate ==
    /\ AvailabilityOfExisting =>
           \A c \in result.body.conflicting_reservations.items :
               reservations[c.id].active
    /\ (/\ CreationWithinCapacity
        /\ RealConflicts(result.request.property_id, result.request.start_date,
                         result.request.end_date) \ CreatedNow = {}
        /\ \E i \in ReservationsOf(result.request.property_id) :
               /\ ~reservations[i].active
               /\ SharesNight(reservations[i], result.request.start_date,
                              result.request.end_date))
       => result.status = HTTP_201_CREATED

\* C7: a request that both shares a night with an active reservation and
\* exceeds the capacity gets the date-conflict verdict, not the capacity one.
C7_ConflictBeforeCapacity ==
    (/\ AvailabilityOfExisting
     /\ RealConflicts(result.request.property_id, result.request.start_date,
                      result.request.end_date) # {}
     /\ result.request.guests_quantity
            > properties[result.request.property_id].capacity)
    => /\ result.body.available = FALSE
       /\ result.body.message = MsgNotAvailable
       /\ result.body.conflicting_reservations.items # {}

\* A verdict for a request that conflicts and exceeds the capacity.
C7_Witness ==
    /\ AvailabilityOfExisting
    /\ RealConflicts(result.request.property_id, result.request.start_date,
                     result.request.end_date) # {}
    /\ result.request.guests_quantity
           > properties[result.request.property_id].capacity
    /\ result.body.message = MsgNotAvailable

\* C8: for an existing property and a range that shares no night with an
\* active reservation, the verdict is "capacity exceeded", naming the
\* capacity, when guests > capacity, and "available" with no conflicts
\* otherwise.
C8_CapacityVerdict ==
    (/\ AvailabilityOfExisting
     /\ RealConflicts(result.request.property_id, result.request.start_date,
                      result.request.end_date) = {})
    => LET capacity == properties[result.request.property_id].capacity
       IN  IF result.request.guests_quantity > capacity
           THEN /\ result.body.available = FALSE
                /\ result.body.message = MsgCapacityExceeded(capacity)
           ELSE /\ result.body.available = TRUE
                /\ result.body.conflicting_reservations.items = {}

\* C9: for an unknown property id the availability operation answers
\* available = false, "property not found" and an empty list of conflicts.
C9_UnknownPropertyVerdict ==
    (/\ result.op = "availability"
     /\ result.request.property_id \notin DOMAIN properties)
    => /\ result.body.available = FALSE
       /\ result.body.message = MsgPropertyNotFound
       /\ result.body.conflicting_reservations = Some({})

\* C10: every stored reservation has a positive number of nights and
\* price = nights * the price_per_night of its property, to the cent.
C10_PriceIsNightsTimesRate ==
    \A i \in DOMAIN reservations :
        LET nights == reservations[i].end_date - reservations[i].start_date
            rate == properties[reservations[i].property_id].price_per_night
        IN  /\ nights > 0
            /\ reservations[i].price.cents = (nights * rate.cents) % 100
            /\ reservations[i].price.units
                   = nights * rate.units + ((nights * rate.cents) \div 100)

\* Three nights at 150.00 stored as 450.00, and one night at 99999999.99.
C10_Witness ==
    /\ \E i \in DOMAIN reservations :
          /\ reservations[i].end_date - reservations[i].start_date = 3
          /\ reservations[i].price = Dec(450, 0)
    /\ \E i \in DOMAIN reservations :
          reservations[i].price = Dec(99999999, 99)

\* C11: a call of get_or_create_by_email whose lower-cased email is already
\* stored returns the id of that row and inserts nothing; every stored email
\* is in lower case; a stored row never changes, so its name stays the name
\* of the call that created it.
C11_GetOrCreateIdempotent ==
    [][/\ \A i \in DOMAIN clients :
              /\ i \in DOMAIN clients'
              /\ clients'[i] = clients[i]
       /\ \A i \in DOMAIN clients' : clients'[i].email = lower(clients'[i].email)
       /\ (result'.op = "get_or_create_by_email" /\ result' # result) =>
              /\ result'.status = HTTP_200_OK
              /\ clients'[result'.body.id].email = lower(result'.request.email)
              /\ result'.body.email = lower(result'.request.email)
              /\ \A i \in DOMAIN clients :
                     clients[i].email = lower(result'.request.email) =>
                         /\ result'.body.id = i
                         /\ result'.body.name = clients[i].name
                         /\ clients' = clients]_vars

\* A call with an upper-case letter in the email and another name returned
\* the client stored under the lower-cased email.
C11_Witness ==
    /\ result.op = "get_or_create_by_email"
    /\ result.status = HTTP_200_OK
    /\ result.request.email # lower(result.request.email)
    /\ result.body.name # result.request.name
    /\ Len(clients) >= 2

\* C12: with the lookup and the insert of concurrent get_or_create_by_email
\* calls interleaved, no two client rows have the same lower-cased email.
C12_OneClientPerEmail ==
    \A i \in DOMAIN clients : \A j \in DOMAIN clients :
        lower(clients[i].email) = lower(clients[j].email) => i = j

\* Two handlers looked the same lower-cased email up before either inserted
\* it: one inserted the row, the other's insert failed.
C12_Witness ==
    \E h1 \in DOMAIN handlers : \E h2 \in DOMAIN handlers :
        /\ h1 # h2
        /\ handlers[h1].pc = "done"
        /\ handlers[h1].response.status = HTTP_500_INTERNAL_SERVER_ERROR
        /\ handlers[h1].client_id = 0
        /\ handlers[h2].client_id # 0
        /\ handlers[h1].raw.client_email # handlers[h2].raw.client_email
        /\ clients[handlers[h2].client_id].email = lower(handlers[h1].raw.client_email)

\* C13: a creation request rejected because the property is not found, the
\* dates conflict or the capacity is exceeded leaves the three tables as they
\* were: no reservation and no client is stored.
C13_RejectedLeavesStoreUnchanged ==
    [][(/\ result' # result
        /\ result'.op = "create_reservation"
        /\ result'.status = HTTP_400_BAD_REQUEST)
       => /\ result'.detail \in
                 {MsgPropertyNotFound, MsgNotAvailable}
                 \cup { MsgCapacityExceeded(n) : n \in 1..MaxGuests }
          /\ reservations' = reservations
          /\ clients' = clients
          /\ properties' = properties]_vars

\* A request rejected for a date conflict whose client is not stored.
C13_Witness ==
    /\ result.op = "create_reservation"
    /\ result.status = HTTP_400_BAD_REQUEST
    /\ result.detail = MsgNotAvailable
    /\ get_by_email(result.request.client_email) = 0
    /\ clients # << >>

\* C14: a successful creation appends exactly one reservation, active, with
\* the request's property, dates and guests and the id of the client row
\* holding the request's lower-cased email; the reservations stored before
\* are unchanged.
C14_CreationAddsOneReservation ==
    [][(/\ result' # result
        /\ result'.op = "create_reservation"
        /\ result'.status = HTTP_201_CREATED)
       => /\ Len(reservations') = Len(reservations) + 1
          /\ \A i \in DOMAIN reservations : reservations'[i] = reservations[i]
          /\ result'.body.id = Len(reservations')
          /\ LET created == reservations'[Len(reservations')]
                 request == result'.request
             IN  /\ created.active = TRUE
                 /\ created.property_id = request.property_id
                 /\ created.start_date = request.start_date
                 /\ created.end_date = request.end_date
                 /\ created.guests_quantity = request.guests_quantity
                 /\ created.client_id \in DOMAIN clients'
                 /\ clients'[created.client_id].email
                        = lower(request.client_email)]_vars

\* A second reservation, created for a client stored before under another
\* name, who is not the first client.
C14_Witness ==
    /\ result.op = "create_reservation"
    /\ result.status = HTTP_201_CREATED
    /\ Len(reservations) = 2
    /\ result.body.client.name # result.request.client_name
    /\ reservations[2].client_id # 1

\* The step is the cancellation of a stored reservation.
CancelOfExisting ==
    /\ result' # result
    /\ result'.op = "cancel"
    /\ result'.request.reservation_id \in DOMAIN reservations

CancelOfUnknown ==
    /\ result' # result
    /\ result'.op = "cancel"
    /\ result'.request.reservation_id \notin DOMAIN reservations

C18_LifecycleMonotonic ==
    [][\A i \in DOMAIN reservations :
          /\ i \in DOMAIN reservations'
          /\ reservations'[i].active => reservations[i].active
          /\ reservations'[i].property_id = reservations[i].property_id
          /\ reservations'[i].client_id = reservations[i].client_id
          /\ reservations'[i].start_date = reservations[i].start_date
          /\ reservations'[i].end_date = reservations[i].end_date
          /\ reservations'[i].guests_quantity = reservations[i].guests_quantity
          /\ reservations'[i].price = reservations[i].price]_vars

\* A cancelled reservation, cancelled once more and still inactive, next to
\* one created after it.
C18_Witness ==
    /\ result.op = "cancel"
    /\ result.request.reservation_id = 1
    /\ Len(reservations) = 2
    /\ ~reservations[1].active
    /\ reservations[2].active
    /\ reservations[2].property_id = reservations[1].property_id
    /\ reservations[2].start_date = reservations[1].start_date

\* C19: every stored reservation, active or cancelled, has a positive
\* guests_quantity that is at most the capacity of its property.
C19_GuestsWithinCapacity ==
    \A i \in DOMAIN reservations :
        /\ reservations[i].guests_quantity > 0
        /\ reservations[i].property_id \in DOMAIN properties
        /\ reservations[i].guests_quantity
               <= properties[reservations[i].property_id].capacity

\* A cancelled reservation that fills its property, and a request for one
\* guest more than the capacity of a property was just rejected.
C19_Witness ==
    /\ \E i \in DOMAIN reservations :
          /\ ~reservations[i].active
          /\ reservations[i].guests_quantity > 1
          /\ reservations[i].guests_quantity
                 = properties[reservations[i].property_id].capacity
    /\ result.op = "create_reservation"
    /\ result.status = HTTP_400_BAD_REQUEST
    /\ \E n \in 1..MaxGuests :
          /\ result.detail = MsgCapacityExceeded(n)
          /\ result.request.guests_quantity = n + 1

\* C20: a creation request with start_date >= end_date, or with start_date
\* before today, is rejected by the validation of its body and nothing is
\* stored; a start_date equal to today passes the validation; every stored
\* reservation has start_date < end_date.
C20_DatesValidated ==
    [][/\ (result' # result /\ result'.op = "create_reservation") =>
              LET request == result'.request
              IN  /\ (\/ request.start_date >= request.end_date
                      \/ request.start_date < Today)
                     => /\ result'.status = HTTP_422_UNPROCESSABLE_ENTITY
                        /\ reservations' = reservations
                        /\ clients' = clients
                  /\ (/\ request.start_date = Today
                      /\ request.start_date < request.end_date)
                     => result'.status # HTTP_422_UNPROCESSABLE_ENTITY
       /\ \A i \in DOMAIN reservations' :
              reservations'[i].start_date < reservations'[i].end_date]_vars

\* A request that starts yesterday and ends later was rejected, and a
\* reservation that starts today is stored.
C20_Witness ==
    /\ result.op = "create_reservation"
    /\ result.status = HTTP_422_UNPROCESSABLE_ENTITY
    /\ result.request.start_date < Today
    /\ result.request.start_date < result.request.end_date
    /\ \E i \in DOMAIN reservations : reservations[i].start_date = Today

\* C21: for an existing property, a creation request is rejected exactly
\* when the availability operation, on the store as it was and the same
\* property, dates and guests, answers available = false, and the reason of
\* the rejection is the message of that answer.
C21_CreationFollowsAvailability ==
    [][(/\ result' # result
        /\ result'.op = "create_reservation"
        /\ result'.status # HTTP_422_UNPROCESSABLE_ENTITY
        /\ result'.request.property_id \in DOMAIN properties)
       => LET request == result'.request
              verdict == VerificarDisponibilidadeUseCase(request.property_id,
                             request.start_date, request.end_date,
                             request.guests_quantity)
          IN  /\ (result'.status = HTTP_400_BAD_REQUEST)
                     <=> (verdict.available = FALSE)
              /\ result'.status = HTTP_400_BAD_REQUEST
                     => result'.detail = verdict.message]_vars

\* A creation rejected for its dates by a reservation that the request only
\* touches at an endpoint, as the availability operation answers too.
C21_Witness ==
    /\ result.op = "create_reservation"
    /\ result.status = HTTP_400_BAD_REQUEST
    /\ result.detail = MsgNotAvailable
    /\ RealConflicts(result.request.property_id, result.request.start_date,
                     result.request.end_date) = {}
    /\ VerificarDisponibilidadeUseCase(result.request.property_id,
           result.request.start_date, result.request.end_date,
           result.request.guests_quantity).message = MsgNotAvailable

\* C22: an unknown id is answered with an outcome of another kind than a
\* validation rejection (422) or a business-rule rejection (400), for an
\* unknown property id at creation and for an unknown reservation id at
\* cancellation.
C22_NotFoundIsDistinctKind ==
    /\ (/\ result.op = "create_reservation"
        /\ ReservationCreateDTO_valid(result.request)
        /\ result.request.property_id \notin DOMAIN properties)
       => result.status \notin {HTTP_400_BAD_REQUEST,
                                HTTP_422_UNPROCESSABLE_ENTITY}
    /\ (/\ result.op = "cancel"
        /\ result.request.reservation_id \notin DOMAIN reservations)
       => result.status \notin {HTTP_400_BAD_REQUEST,
                                HTTP_422_UNPROCESSABLE_ENTITY}

\* C23: in the creation workflow, client resolution either yields a client
\* row whose email is the request's lower-cased email, or ends the request
\* with a system error (500); a request ended that way, the loser of two
\* concurrent creations for one new email included, writes nothing and no
\* reservation is stored for it.
C23_ClientResolvedOrAborted ==
    [][\A h \in DOMAIN handlers :
          /\ handlers'[h].client_id # 0 =>
                 /\ handlers'[h].client_id \in DOMAIN clients'
                 /\ clients'[handlers'[h].client_id].email
                        = lower(handlers'[h].raw.client_email)
          /\ handlers[h].pc \in {"get_by_email", "create_client"} =>
                 \/ handlers'[h] = handlers[h]
                 \/ handlers'[h].pc = "create_client"
                 \/ handlers'[h].pc = "get_property" /\ handlers'[h].client_id # 0
                 \/ /\ handlers'[h].pc = "done"
                    /\ handlers'[h].response.status
                           = HTTP_500_INTERNAL_SERVER_ERROR
                    /\ handlers'[h].reservation_id = 0
                    /\ reservations' = reservations
                    /\ clients' = clients
          /\ handlers[h].pc = "done" =>
                 \/ handlers'[h] = handlers[h]
                 \/ handlers'[h] = IdleHandler /\ reservations' = reservations]_vars

\* The loser of two concurrent creations for one new email ended in a system
\* error without a reservation, while the winner's reservation is stored.
C23_Witness ==
    \E h1 \in DOMAIN handlers : \E h2 \in DOMAIN handlers :
        /\ handlers[h1].pc = "done"
        /\ handlers[h1].response.status = HTTP_500_INTERNAL_SERVER_ERROR
        /\ handlers[h1].client_id = 0
        /\ handlers[h1].reservation_id = 0
        /\ handlers[h2].pc = "done"
        /\ handlers[h2].response.status = HTTP_201_CREATED
        /\ lower(handlers[h1].raw.client_email)
               = lower(handlers[h2].raw.client_email)
        /\ Len(reservations) = 1

\* The last response is the answer of the conflict query for a range with
\* start < end.
ConflictQueryOfRange ==
    /\ result.op = "get_conflicting_reservations"
    /\ result.request.start_date < result.request.end_date

\* The id the conflict query was told to leave out, if any.
Excluded ==
    IF result.request.exclude_reservation_id # 0
    THEN {result.request.exclude_reservation_id} ELSE {}

\* C24: for a candidate with start < end, get_conflicting_reservations
\* returns exactly the active reservations of the property that share a
\* night with the candidate, without the excluded id; a reservation that
\* only touches the candidate at an endpoint is not returned.
C24_ConflictQueryIsExact ==
    /\ \A i \in DOMAIN reservations :
           reservations[i].start_date < reservations[i].end_date
    /\ ConflictQueryOfRange =>
           result.body.ids
               = RealConflicts(result.request.property_id,
                               result.request.start_date,
                               result.request.end_date) \ Excluded

\* One active reservation returned, and one that ends where the candidate
\* starts not returned.
C24_Witness ==
    /\ ConflictQueryOfRange
    /\ result.body.ids # {}
    /\ \E i \in ActiveOf(result.request.property_id) :
          /\ reservations[i].end_date = result.request.start_date
          /\ i \notin result.body.ids

\* The ids check_availability lists for the property and range of the last
\* conflict query.
AvailabilityConflictIds ==
    { c.id : c \in check_availability(result.request.property_id,
                       result.request.start_date, result.request.end_date,
                       1).conflicting_reservations }

\* C25: for a candidate range (start < end), the conflicts check_availability
\* lists contain those get_conflicting_reservations returns for the same
\* property and range, and the ones listed in addition are exactly the
\* active reservations that start on the candidate's end or end on the
\* candidate's start.
C25_QueriesDifferAtEndpoints ==
    (ConflictQueryOfRange /\ Excluded = {})
    => /\ result.body.ids \subseteq AvailabilityConflictIds
       /\ AvailabilityConflictIds \ result.body.ids
              = { i \in ActiveOf(result.request.property_id) :
                    \/ reservations[i].start_date = result.request.end_date
                    \/ reservations[i].end_date = result.request.start_date }

\* A reservation that starts on the candidate's end is listed by
\* check_availability only, next to one both queries return.
C25_Witness ==
    /\ ConflictQueryOfRange
    /\ Excluded = {}
    /\ result.body.ids # {}
    /\ \E i \in AvailabilityConflictIds \ result.body.ids :
          reservations[i].start_date = result.request.end_date

\* The ids of the items of the last listing.
ListedIds ==
    { result.body.items[k].id : k \in DOMAIN result.body.items }

\* C26: a listing with active_only = true returns only active reservations,
\* so none that was cancelled; a listing with active_only = false whose
\* first page holds every stored reservation returns each cancelled
\* reservation that its other filters select, with active = false.
C26_ListingActiveOnly ==
    result.op = "list_reservations" =>
        /\ result.request.active_only =>
               \A k \in DOMAIN result.body.items :
                   /\ result.body.items[k].active = TRUE
                   /\ reservations[result.body.items[k].id].active = TRUE
        /\ (/\ ~result.request.active_only
            /\ result.request.page = 1
            /\ result.request.page_size >= Len(reservations))
           => \A i \in DOMAIN reservations :
                  (/\ ~reservations[i].active
                   /\ result.request.property_id
                          \in {0, reservations[i].property_id}
                   /\ \/ result.request.client_email = None
                      \/ lower(result.request.client_email)
                             = clients[reservations[i].client_id].email)
                  => \E k \in DOMAIN result.body.items :
                         /\ result.body.items[k].id = i
                         /\ result.body.items[k].active = FALSE

\* A listing with active_only = false and no other filter returned a
\* cancelled reservation and an active one.
C26_Witness ==
    /\ result.op = "list_reservations"
    /\ ~result.request.active_only
    /\ result.request.client_email = None
    /\ result.request.property_id = 0
    /\ \E i \in ListedIds : ~reservations[i].active
    /\ \E i \in ListedIds : reservations[i].active

\* C27: the availability operation, whatever its verdict, leaves the
\* properties, the clients and the reservations, with all their fields, as
\* they were before the call.
C27_AvailabilityReadOnly ==
    [][(result' # result /\ result'.op = "availability")
       => /\ properties' = properties
          /\ clients' = clients
          /\ reservations' = reservations]_vars

\* A "not available" verdict that lists a conflict, with two reservations
\* stored, the listed one still active.
C27_Witness ==
    /\ result.op = "availability"
    /\ result.body.available = FALSE
    /\ Len(reservations) = 2
    /\ \E c \in result.body.conflicting_reservations.items :
          reservations[c.id].active

\* C28: every stored reservation references a stored property and a stored
\* client.
C28_ReferencesExist ==
    \A i \in DOMAIN reservations :
        /\ reservations[i].property_id \in DOMAIN properties
        /\ reservations[i].client_id \in DOMAIN clients

\* Two reservations of two different clients are stored.
C28_Witness ==
    /\ Len(reservations) = 2
    /\ Len(clients) = 2
    /\ reservations[1].client_id # reservations[2].client_id

\* C29: in every interleaving of creations and cancellations, no
\* cancellation ends with cancelled = false and "Erro ao cancelar reserva":
\* each ends as not found or as success.
C29_CancelErrorUnreachable ==
    \A h \in DOMAIN handlers :
        handlers[h].response.op = "cancel" =>
            /\ handlers[h].response.body.message # MsgCancelError
            /\ \/ /\ handlers[h].response.body.cancelled = FALSE
                  /\ handlers[h].response.body.message = MsgReservationNotFound
               \/ /\ handlers[h].response.body.cancelled = TRUE
                  /\ handlers[h].response.body.message = MsgCancelled

\* A cancellation that found its reservation and has not yet updated it,
\* while another handler's cancellation of the same reservation has ended.
C29_Witness ==
    \E h1 \in DOMAIN handlers : \E h2 \in DOMAIN handlers :
        /\ handlers[h1].pc = "cancel"
        /\ handlers[h2].pc = "done"
        /\ handlers[h2].response.op = "cancel"
        /\ handlers[h2].response.body.cancelled = TRUE
        /\ handlers[h2].raw.reservation_id = handlers[h1].raw.reservation_id
        /\ ~reservations[handlers[h1].raw.reservation_id].active

\* C2: of two creation requests served concurrently for ranges of one
\* property that share a night, at most one is persisted as an active
\* reservation.
C2_AtMostOneRacingPersisted ==
    \A h1 \in DOMAIN handlers : \A h2 \in DOMAIN handlers :
        (/\ h1 # h2
         /\ handlers[h1].pc = "done"
         /\ handlers[h2].pc = "done"
         /\ handlers[h1].raw.property_id = handlers[h2].raw.property_id
         /\ SharesNight(handlers[h1].raw, handlers[h2].raw.start_date,
                        handlers[h2].raw.end_date))
        => ~(/\ handlers[h1].response.status = HTTP_201_CREATED
             /\ handlers[h2].response.status = HTTP_201_CREATED
             /\ reservations[handlers[h1].reservation_id].active
             /\ reservations[handlers[h2].reservation_id].active)

====
